---------------------------- MODULE Spec2Model ----------------------------
(***************************************************************************)
(* State-machine model of the earthquake risk forecaster front end:        *)
(*   App      (src/unnamed/part_000, the App component)                    *)
(*   Predict  (src/frontend/src/Predict.tsx)                               *)
(*   api      (src/frontend/src/api.ts)                                    *)
(* together with the prediction service the front end calls.               *)
(*                                                                         *)
(* JavaScript numbers are modelled as exact rationals plus NaN and the two *)
(* infinities; strings that are converted to numbers are modelled as       *)
(* sequences of one-character strings so that Number(...) is a real parse. *)
(***************************************************************************)
EXTENDS Integers, Sequences, FiniteSets, TLC

(***************************************************************************)
(* Optional values (null | T) are sequences of length at most one.         *)
(***************************************************************************)
None == <<>>

Some(x) == <<x>>

IsNull(o) == Len(o) = 0

Get(o) == o[1]

(***************************************************************************)
(* Numbers.                                                                *)
(***************************************************************************)
Abs(n) == IF n < 0 THEN -n ELSE n

RECURSIVE Gcd(_, _)
Gcd(a, b) == IF b = 0 THEN a ELSE Gcd(b, a % b)

\* The finite number n/d (d # 0), in lowest terms with a positive denominator.
Rat(n, d) ==
    LET g == Gcd(Abs(n), Abs(d))
        s == IF d < 0 THEN -1 ELSE 1
    IN  [kind |-> "finite", num |-> (s * n) \div g, den |-> (s * d) \div g]

Int2Num(n) == Rat(n, 1)

NaN == [kind |-> "nan", num |-> 0, den |-> 1]

PosInfinity == [kind |-> "inf", num |-> 1, den |-> 1]

NegInfinity == [kind |-> "inf", num |-> -1, den |-> 1]

\* Number.isFinite
NumberIsFinite(x) == x.kind = "finite"

\* x < y and x > y on numbers; every comparison with NaN is false.
NumLt(x, y) ==
    CASE x.kind = "nan" \/ y.kind = "nan" -> FALSE
      [] x.kind = "inf" /\ y.kind = "inf" -> x.num < y.num
      [] x.kind = "inf" -> x.num < 0
      [] y.kind = "inf" -> y.num > 0
      [] OTHER -> x.num * y.den < y.num * x.den

NumGt(x, y) == NumLt(y, x)

\* Arithmetic, used by the program on finite operands only.
NumAdd(x, y) == Rat(x.num * y.den + y.num * x.den, x.den * y.den)

NumSub(x, y) == Rat(x.num * y.den - y.num * x.den, x.den * y.den)

NumMul(x, y) == Rat(x.num * y.num, x.den * y.den)

NumDiv(x, y) == Rat(x.num * y.den, x.den * y.num)

\* Math.round: the nearest integer, ties towards +infinity.
MathRound(x) == Int2Num((2 * x.num + x.den) \div (2 * x.den))

NumMin(x, y) == IF NumLt(y, x) THEN y ELSE x

NumMax(x, y) == IF NumLt(x, y) THEN y ELSE x

(***************************************************************************)
(* Number(string): StringToNumber on a string given as a sequence of       *)
(* characters.  Modelled: surrounding white space is trimmed, the empty    *)
(* string is 0, an optional sign, "Infinity", and decimal literals with    *)
(* an optional fraction and an optional exponent; anything else is NaN.    *)
(* (Hexadecimal, octal and binary literals are not among the inputs.)      *)
(***************************************************************************)
Digits == <<"0", "1", "2", "3", "4", "5", "6", "7", "8", "9">>

IsDigit(c) == \E i \in 1..Len(Digits) : Digits[i] = c

DigitValue(c) == (CHOOSE i \in 1..Len(Digits) : Digits[i] = c) - 1

IsWhiteSpace(c) == c = " "

RECURSIVE TrimLeft(_)
TrimLeft(s) ==
    IF Len(s) > 0 /\ IsWhiteSpace(Head(s)) THEN TrimLeft(Tail(s)) ELSE s

RECURSIVE TrimRight(_)
TrimRight(s) ==
    IF Len(s) > 0 /\ IsWhiteSpace(s[Len(s)])
    THEN TrimRight(SubSeq(s, 1, Len(s) - 1))
    ELSE s

Trim(s) == TrimRight(TrimLeft(s))

AllDigits(s) == \A i \in 1..Len(s) : IsDigit(s[i])

\* The value of a string of digits (0 for the empty one).
RECURSIVE DigitsValue(_)
DigitsValue(s) ==
    IF Len(s) = 0 THEN 0
    ELSE 10 * DigitsValue(SubSeq(s, 1, Len(s) - 1)) + DigitValue(s[Len(s)])

RECURSIVE Pow10(_)
Pow10(n) == IF n = 0 THEN 1 ELSE 10 * Pow10(n - 1)

\* The first index of character c in s, or 0.
IndexOf(s, c) ==
    IF \E i \in 1..Len(s) : s[i] = c
    THEN CHOOSE i \in 1..Len(s) : s[i] = c /\ \A j \in 1..(i - 1) : s[j] # c
    ELSE 0

\* An unsigned decimal mantissa "ddd", "ddd.", "ddd.ddd" or ".ddd".
IsMantissa(s) ==
    LET dot == IndexOf(s, ".")
        ip == IF dot = 0 THEN s ELSE SubSeq(s, 1, dot - 1)
        fp == IF dot = 0 THEN <<>> ELSE SubSeq(s, dot + 1, Len(s))
    IN  AllDigits(ip) /\ AllDigits(fp) /\ Len(ip) + Len(fp) > 0

MantissaValue(s) ==
    LET dot == IndexOf(s, ".")
        ip == IF dot = 0 THEN s ELSE SubSeq(s, 1, dot - 1)
        fp == IF dot = 0 THEN <<>> ELSE SubSeq(s, dot + 1, Len(s))
    IN  Rat(DigitsValue(ip) * Pow10(Len(fp)) + DigitsValue(fp), Pow10(Len(fp)))

\* An exponent part "e[+-]ddd" without its leading e.
IsExponent(s) ==
    LET d == IF Len(s) > 0 /\ s[1] \in {"+", "-"} THEN Tail(s) ELSE s
    IN  Len(d) > 0 /\ AllDigits(d)

ExponentValue(s) ==
    IF s[1] = "-" THEN -DigitsValue(Tail(s))
    ELSE IF s[1] = "+" THEN DigitsValue(Tail(s))
    ELSE DigitsValue(s)

\* An unsigned decimal literal, with its value.
UnsignedLiteral(s) ==
    LET e  == IF IndexOf(s, "e") # 0 THEN IndexOf(s, "e") ELSE IndexOf(s, "E")
        m  == IF e = 0 THEN s ELSE SubSeq(s, 1, e - 1)
        x  == IF e = 0 THEN <<>> ELSE SubSeq(s, e + 1, Len(s))
    IN  IF s = <<"I", "n", "f", "i", "n", "i", "t", "y">> THEN PosInfinity
        ELSE IF ~IsMantissa(m) THEN NaN
        ELSE IF e = 0 THEN MantissaValue(m)
        ELSE IF ~IsExponent(x) THEN NaN
        ELSE IF ExponentValue(x) >= 0
             THEN NumMul(MantissaValue(m), Int2Num(Pow10(ExponentValue(x))))
             ELSE NumDiv(MantissaValue(m), Int2Num(Pow10(-ExponentValue(x))))

Negate(x) ==
    IF x.kind = "nan" THEN x ELSE [x EXCEPT !.num = -x.num]

Number(str) ==
    LET s == Trim(str)
    IN  IF Len(s) = 0 THEN Int2Num(0)
        ELSE IF s[1] = "-" THEN Negate(UnsignedLiteral(Tail(s)))
        ELSE IF s[1] = "+" THEN UnsignedLiteral(Tail(s))
        ELSE UnsignedLiteral(s)

(***************************************************************************)
(* Predict.tsx: significance normalisation.                                *)
(***************************************************************************)
SIGNIFICANCE_USGS_MIN == 0

SIGNIFICANCE_USGS_MAX == 1000

SIGNIFICANCE_MODEL_MIN == -128

SIGNIFICANCE_MODEL_MAX == 127

\* Variants of convertSignificanceToModelScale with a slip in them.
convertSignificance_SpanIsModelMax(value) ==
    LET normalized ==
            NumDiv(NumSub(value, Int2Num(SIGNIFICANCE_USGS_MIN)),
                   Int2Num(SIGNIFICANCE_USGS_MAX - SIGNIFICANCE_USGS_MIN))
    IN  NumAdd(NumMul(normalized, Int2Num(SIGNIFICANCE_MODEL_MAX)),
               Int2Num(SIGNIFICANCE_MODEL_MIN))

\* ... returning the one-decimal value that convertedSigDisplay shows.
convertSignificance_OneDecimal(value) ==
    LET normalized ==
            NumDiv(NumSub(value, Int2Num(SIGNIFICANCE_USGS_MIN)),
                   Int2Num(SIGNIFICANCE_USGS_MAX - SIGNIFICANCE_USGS_MIN))
        scaled ==
            NumAdd(NumMul(normalized,
                          Int2Num(SIGNIFICANCE_MODEL_MAX - SIGNIFICANCE_MODEL_MIN)),
                   Int2Num(SIGNIFICANCE_MODEL_MIN))
    IN  NumDiv(MathRound(NumMul(scaled, Int2Num(10))), Int2Num(10))

convertSignificanceToModelScale(value) ==
    LET normalized ==
            NumDiv(NumSub(value, Int2Num(SIGNIFICANCE_USGS_MIN)),
                   Int2Num(SIGNIFICANCE_USGS_MAX - SIGNIFICANCE_USGS_MIN))
    IN  NumAdd(NumMul(normalized,
                      Int2Num(SIGNIFICANCE_MODEL_MAX - SIGNIFICANCE_MODEL_MIN)),
               Int2Num(SIGNIFICANCE_MODEL_MIN))

(***************************************************************************)
(* Predict.tsx: the form.                                                  *)
(***************************************************************************)
Fields == <<"magnitude", "depth", "cdi", "mmi", "sig">>

FieldSet == {Fields[i] : i \in 1..Len(Fields)}

emptyForm == [f \in FieldSet |-> <<>>]

noFieldErrors == [f \in FieldSet |-> None]

\* The closed interval each field is declared to lie in (on the form's scale).
RangeMin(field) ==
    IF field = "sig" THEN Int2Num(SIGNIFICANCE_USGS_MIN) ELSE Int2Num(0)

RangeMax(field) ==
    CASE field = "magnitude" -> Int2Num(10)
      [] field = "depth" -> Int2Num(700)
      [] field = "cdi" -> Int2Num(12)
      [] field = "mmi" -> Int2Num(12)
      [] field = "sig" -> Int2Num(SIGNIFICANCE_USGS_MAX)

validateFieldValue(field, value) ==
    LET numValue == Number(value)
    IN  IF value = <<>> THEN None
        ELSE IF ~NumberIsFinite(numValue)
        THEN Some("Invalid value - must be a number")
        ELSE CASE field = "magnitude" ->
                    IF NumLt(numValue, Int2Num(0)) \/ NumGt(numValue, Int2Num(10))
                    THEN Some("Invalid value - must be between 0 and 10")
                    ELSE None
               [] field = "depth" ->
                    IF NumLt(numValue, Int2Num(0)) \/ NumGt(numValue, Int2Num(700))
                    THEN Some("Invalid value - must be between 0 and 700")
                    ELSE None
               [] field = "cdi" ->
                    IF NumLt(numValue, Int2Num(0)) \/ NumGt(numValue, Int2Num(12))
                    THEN Some("Invalid value - must be between 0 and 12")
                    ELSE None
               [] field = "mmi" ->
                    IF NumLt(numValue, Int2Num(0)) \/ NumGt(numValue, Int2Num(12))
                    THEN Some("Invalid value - must be between 0 and 12")
                    ELSE None
               [] field = "sig" ->
                    IF NumLt(numValue, Int2Num(SIGNIFICANCE_USGS_MIN))
                       \/ NumGt(numValue, Int2Num(SIGNIFICANCE_USGS_MAX))
                    THEN Some("Invalid value - must be between 0 and 1000")
                    ELSE None

\* The outcome of a call that either returns a value or throws an Error.
Returned(v) == [value |-> Some(v), thrown |-> None]

Thrown(message) == [value |-> None, thrown |-> Some(message)]

\* Variants of parsePayload with a slip in them: the order of the checks,
\* a missing Number.isFinite, a missing upper bound of sig, sig left on the
\* USGS scale, cdi and mmi exchanged.
parsePayloadVariant(form, order, finiteChecked, sigMaxChecked, sigScaled, swapped) ==
    LET value(f) == Number(form[f])
        max(f) == CASE f = "magnitude" -> Int2Num(10)
                    [] f = "depth" -> Int2Num(700)
                    [] f = "cdi" -> Int2Num(12)
                    [] f = "mmi" -> Int2Num(12)
                    [] f = "sig" -> Int2Num(SIGNIFICANCE_USGS_MAX)
        message(f) ==
            CASE f = "magnitude" -> "Magnitude must be a number between 0 and 10."
              [] f = "depth" -> "Depth must be a number between 0 and 700 km."
              [] f = "cdi" -> "CDI must be a number between 0 and 12."
              [] f = "mmi" -> "MMI must be a number between 0 and 12."
              [] f = "sig" -> "Significance must be between 0 and 1000."
        bad(f) ==
            \/ finiteChecked /\ ~NumberIsFinite(value(f))
            \/ NumLt(value(f), Int2Num(0))
            \/ (f # "sig" \/ sigMaxChecked) /\ NumGt(value(f), max(f))
        failing == {i \in 1..Len(order) : bad(order[i])}
        first == CHOOSE i \in failing : \A j \in failing : i <= j
    IN  IF failing # {} THEN Thrown(message(order[first]))
        ELSE Returned([magnitude |-> value("magnitude"),
                       depth |-> value("depth"),
                       cdi |-> IF swapped THEN value("mmi") ELSE value("cdi"),
                       mmi |-> IF swapped THEN value("cdi") ELSE value("mmi"),
                       sig |-> IF sigScaled
                               THEN convertSignificanceToModelScale(value("sig"))
                               ELSE value("sig")])

parsePayload_NoIsFinite(form) ==
    parsePayloadVariant(form, Fields, FALSE, TRUE, TRUE, FALSE)

parsePayload_NoSigMax(form) ==
    parsePayloadVariant(form, Fields, TRUE, FALSE, TRUE, FALSE)

parsePayload_SigNotScaled(form) ==
    parsePayloadVariant(form, Fields, TRUE, TRUE, FALSE, FALSE)

parsePayload_CdiMmiSwapped(form) ==
    parsePayloadVariant(form, Fields, TRUE, TRUE, TRUE, TRUE)

parsePayload_SigCheckedFirst(form) ==
    parsePayloadVariant(form, <<"sig", "magnitude", "depth", "cdi", "mmi">>,
                        TRUE, TRUE, TRUE, FALSE)

parsePayload(form) ==
    LET magnitude == Number(form["magnitude"])
        depth == Number(form["depth"])
        cdi == Number(form["cdi"])
        mmi == Number(form["mmi"])
        sig == Number(form["sig"])
    IN  IF ~NumberIsFinite(magnitude) \/ NumLt(magnitude, Int2Num(0))
           \/ NumGt(magnitude, Int2Num(10))
        THEN Thrown("Magnitude must be a number between 0 and 10.")
        ELSE IF ~NumberIsFinite(depth) \/ NumLt(depth, Int2Num(0))
                \/ NumGt(depth, Int2Num(700))
        THEN Thrown("Depth must be a number between 0 and 700 km.")
        ELSE IF ~NumberIsFinite(cdi) \/ NumLt(cdi, Int2Num(0))
                \/ NumGt(cdi, Int2Num(12))
        THEN Thrown("CDI must be a number between 0 and 12.")
        ELSE IF ~NumberIsFinite(mmi) \/ NumLt(mmi, Int2Num(0))
                \/ NumGt(mmi, Int2Num(12))
        THEN Thrown("MMI must be a number between 0 and 12.")
        ELSE IF ~NumberIsFinite(sig)
                \/ NumLt(sig, Int2Num(SIGNIFICANCE_USGS_MIN))
                \/ NumGt(sig, Int2Num(SIGNIFICANCE_USGS_MAX))
        THEN Thrown("Significance must be between 0 and 1000.")
        ELSE Returned([magnitude |-> magnitude,
                       depth |-> depth,
                       cdi |-> cdi,
                       mmi |-> mmi,
                       sig |-> convertSignificanceToModelScale(sig)])

\* An isFormValid that lets every form through to handleSubmit.
isFormValid_EmptyAllowed(form) == TRUE

\* form.magnitude && form.depth && form.cdi && form.mmi && form.sig
isFormValid(form) == \A f \in FieldSet : Len(form[f]) > 0

(***************************************************************************)
(* api.ts: the request body and the reply handling of predictEarthquakeRisk *)
(***************************************************************************)
\* JSON.stringify of a number: a non-finite number is written as null.
JsonNumber(x) == IF NumberIsFinite(x) THEN Some(x) ELSE None

JSONstringify(payload) == [f \in FieldSet |-> JsonNumber(payload[f])]

\* What fetch gives back: an HTTP response or a rejected promise.
OkReply(data) ==
    [kind |-> "response", ok |-> TRUE, status |-> 200,
     detail |-> None, data |-> Some(data)]

ErrorReply(status, detail) ==
    [kind |-> "response", ok |-> FALSE, status |-> status,
     detail |-> detail, data |-> None]

NetworkFailure ==
    [kind |-> "rejected", ok |-> FALSE, status |-> 0,
     detail |-> Some("Failed to fetch"), data |-> None]

StatusMessage(status) ==
    CASE status = 422 -> "Request failed with status 422"
      [] status = 503 -> "Request failed with status 503"

\* predictEarthquakeRisk taking the probability for a percentage.
predictEarthquakeRisk_Percent(reply) ==
    IF reply.kind = "rejected" THEN Thrown(Get(reply.detail))
    ELSE IF ~reply.ok
    THEN IF ~IsNull(reply.detail) THEN Thrown(Get(reply.detail))
         ELSE Thrown(StatusMessage(reply.status))
    ELSE Returned([Get(reply.data) EXCEPT
                       !.probability = NumMul(@, Int2Num(100))])

\* predictEarthquakeRisk after the await of fetch, given the reply.
predictEarthquakeRisk(reply) ==
    IF reply.kind = "rejected" THEN Thrown(Get(reply.detail))
    ELSE IF ~reply.ok
    THEN IF ~IsNull(reply.detail) THEN Thrown(Get(reply.detail))
         ELSE Thrown(StatusMessage(reply.status))
    ELSE Returned(Get(reply.data))

(***************************************************************************)
(* The prediction service behind POST /predict.  Its code is not among the *)
(* sources; it is modelled from the specification (sections 4.2 and 3):    *)
(* the scorer's value is clamped to [0,1] and bucketed by the thresholds.  *)
(***************************************************************************)
LowMediumCut == Rat(3, 10)

MediumHighCut == Rat(7, 10)

ClampProbability(score) == NumMin(Int2Num(1), NumMax(Int2Num(0), score))

ThresholdPolicy(probability) ==
    IF NumLt(probability, LowMediumCut) THEN "low"
    ELSE IF NumLt(probability, MediumHighCut) THEN "medium"
    ELSE "high"

Classify(score) ==
    [probability |-> ClampProbability(score),
     risk_category |-> ThresholdPolicy(ClampProbability(score))]

(***************************************************************************)
(* Predict.tsx: what PredictionResult shows for a stored result.           *)
(***************************************************************************)
riskConfig ==
    [low |-> [label |-> "Low Risk"],
     medium |-> [label |-> "Medium Risk"],
     high |-> [label |-> "High Risk"]]

\* PredictionResult choosing the colours from the percentage itself, with
\* cut points of its own.
PredictionResult_OwnBands(result) ==
    LET probabilityPercent ==
            NumDiv(MathRound(NumMul(result.probability, Int2Num(1000))),
                   Int2Num(10))
        clampedPercent ==
            NumMin(Int2Num(100), NumMax(Int2Num(0), probabilityPercent))
        riskKey == IF NumGt(clampedPercent, Int2Num(70)) THEN "high"
                   ELSE IF NumGt(clampedPercent, Int2Num(30)) THEN "medium"
                   ELSE "low"
    IN  [riskKey |-> riskKey,
         label |-> riskConfig[riskKey].label,
         probabilityPercent |-> probabilityPercent,
         clampedPercent |-> clampedPercent]

PredictionResult(result) ==
    LET riskKey == result.risk_category
        config == riskConfig[riskKey]
        probabilityPercent ==
            NumDiv(MathRound(NumMul(result.probability, Int2Num(1000))),
                   Int2Num(10))
        clampedPercent ==
            NumMin(Int2Num(100), NumMax(Int2Num(0), probabilityPercent))
    IN  [riskKey |-> riskKey,
         label |-> config.label,
         probabilityPercent |-> probabilityPercent,
         clampedPercent |-> clampedPercent]

(***************************************************************************)
(* Inputs.                                                                 *)
(***************************************************************************)
\* What the user may type into each field.
FieldInputs(field) ==
    CASE field = "magnitude" -> {<<>>, <<"7">>, <<"1", "0", ".", "1">>}
      [] field = "depth" -> {<<>>, <<"1", "0">>, <<"-", "1">>}
      [] field = "cdi" -> {<<>>, <<"8">>}
      [] field = "mmi" -> {<<>>, <<"1", "2">>, <<"a", "b", "c">>}
      [] field = "sig" ->
            {<<>>, <<" ">>, <<"1", "0", "0", "0">>, <<"1", "0", "0", "1">>}

\* What the scorer of the service may return for a feature vector.
ScorerValues == {Rat(-1, 5), Rat(1, 2), Rat(6, 5)}

\* The replies fetch may give to POST /predict.
PredictReplies ==
    {OkReply(Classify(score)) : score \in ScorerValues}
    \cup {ErrorReply(422, Some("Invalid input")), ErrorReply(503, None),
          NetworkFailure}

\* The outcomes of wakeBackend: is_awake true, is_awake false, or a throw.
WakeOutcomes == {"awake", "asleep", "failed"}

\* Requests of unmounted Predict instances that may still be pending.
MaxOrphans == 1

(***************************************************************************)
(* State.                                                                  *)
(***************************************************************************)
VARIABLES
    isAwake,        \* App
    isWaking,       \* App
    lastRequestAt,  \* App: null, or the time of the last request
    loginError,     \* App
    wakeInFlight,   \* a wakeBackend call is awaiting its reply
    form,           \* Predict
    fieldErrors,    \* Predict
    result,         \* Predict
    isLoading,      \* Predict
    error,          \* Predict
    hasSubmitted,   \* Predict
    requests,       \* pending handleSubmit calls of the mounted Predict
    orphans,        \* pending handleSubmit calls of unmounted Predicts
    probeIn,        \* the arguments of a function applied on its own
    probeOut        \* null, or what the function returned for probeIn

appVars == <<isAwake, isWaking, lastRequestAt, loginError, wakeInFlight>>

predictVars == <<form, fieldErrors, result, isLoading, error, hasSubmitted>>

netVars == <<requests, orphans>>

probeVars == <<probeIn, probeOut>>

vars == <<appVars, predictVars, netVars, probeVars>>

\* Date.now(): the clock is read modulo 2 readings, so that each reading
\* differs from the one stored before it; the code only tests lastRequestAt
\* for null and for change (the dependency list of the timer effect).
Now == IF IsNull(lastRequestAt) THEN 0 ELSE 1 - Get(lastRequestAt)

\* The state of a freshly mounted Predict (its useState initial values).
PredictInitial ==
    /\ form = emptyForm
    /\ fieldErrors = noFieldErrors
    /\ result = None
    /\ isLoading = FALSE
    /\ error = None
    /\ hasSubmitted = FALSE

\* App and Predict after construction, nothing in flight.
AppInit ==
    /\ isAwake = FALSE
    /\ isWaking = FALSE
    /\ lastRequestAt = None
    /\ loginError = None
    /\ wakeInFlight = FALSE
    /\ PredictInitial
    /\ requests = <<>>
    /\ orphans = 0

Init ==
    /\ AppInit
    /\ probeIn = None
    /\ probeOut = None

(***************************************************************************)
(* App (src/unnamed/part_000).                                             *)
(***************************************************************************)
\* recordApiRequest and markApiAwake are inlined where they are called.

\* The Login button, enabled while not waking: handleLogin up to its await.
handleLogin ==
    /\ ~isAwake
    /\ ~isWaking
    /\ isWaking' = TRUE
    /\ loginError' = None
    /\ lastRequestAt' = Some(Now)
    /\ wakeInFlight' = TRUE
    /\ UNCHANGED <<isAwake, predictVars, netVars, probeVars>>

\* handleLogin after its await: wakeBackend has settled.
handleLoginSettled ==
    /\ wakeInFlight
    /\ \E outcome \in WakeOutcomes :
        IF outcome = "awake"
        THEN /\ isAwake' = TRUE
             /\ lastRequestAt' = Some(Now)
             \* useEffect on [isAwake]
             /\ loginError' = IF ~isAwake THEN None ELSE loginError
        ELSE /\ loginError' =
                    IF outcome = "asleep"
                    THEN Some("The API is still waking up. Please try again.")
                    ELSE Some("Unable to reach the API. Please try again.")
             /\ UNCHANGED <<isAwake, lastRequestAt>>
    /\ isWaking' = FALSE
    /\ wakeInFlight' = FALSE
    /\ UNCHANGED <<predictVars, netVars, probeVars>>

\* Predict is unmounted: the next mount starts from the useState initial values.
PredictUnmount ==
    /\ form' = emptyForm
    /\ fieldErrors' = noFieldErrors
    /\ result' = None
    /\ isLoading' = FALSE
    /\ error' = None
    /\ hasSubmitted' = FALSE

\* The inactivity timer armed by useEffect on [isAwake, lastRequestAt] fires.
\* Predict is unmounted: its state is dropped, its pending calls live on.
inactivityTimeout ==
    /\ isAwake
    /\ ~IsNull(lastRequestAt)
    /\ orphans + Len(requests) <= MaxOrphans
    /\ isAwake' = FALSE
    /\ PredictUnmount
    /\ orphans' = orphans + Len(requests)
    /\ requests' = <<>>
    /\ UNCHANGED <<isWaking, lastRequestAt, loginError, wakeInFlight, probeVars>>

(***************************************************************************)
(* Predict (src/frontend/src/Predict.tsx), rendered while isAwake.         *)
(***************************************************************************)
handleChange ==
    /\ isAwake
    /\ \E field \in FieldSet : \E value \in FieldInputs(field) :
        /\ form' = [form EXCEPT ![field] = value]
        /\ fieldErrors' = [fieldErrors EXCEPT ![field] = None]
    \* useEffect on [form]
    /\ IF hasSubmitted /\ ~IsNull(result)
       THEN result' = None /\ error' = None
       ELSE UNCHANGED <<result, error>>
    /\ UNCHANGED <<isLoading, hasSubmitted, appVars, netVars, probeVars>>

handleBlur ==
    /\ isAwake
    /\ \E field \in FieldSet :
        fieldErrors' =
            [fieldErrors EXCEPT ![field] = validateFieldValue(field, form[field])]
    /\ UNCHANGED <<form, result, isLoading, error, hasSubmitted, appVars,
                   netVars, probeVars>>

\* Variants of handleSubmit with a slip in them: the button may stay enabled
\* while a request is pending, the result shown may be left in place, and
\* the payload is given by the caller.
handleSubmitVariant(loadingChecked, resultCleared, parsed) ==
    /\ isAwake
    /\ isFormValid(form)
    /\ loadingChecked => ~isLoading
    /\ result' = IF resultCleared THEN None ELSE result
    /\ IF ~IsNull(parsed.thrown)
       THEN /\ error' = parsed.thrown
            /\ UNCHANGED <<isLoading, hasSubmitted, lastRequestAt, requests>>
       ELSE /\ error' = None
            /\ isLoading' = TRUE
            /\ hasSubmitted' = TRUE
            /\ lastRequestAt' = Some(Now)
            /\ requests' =
                   Append(requests,
                          [payload |-> Get(parsed.value),
                           body |-> JSONstringify(Get(parsed.value)),
                           form |-> form])
    /\ UNCHANGED <<form, fieldErrors, isAwake, isWaking, loginError,
                   wakeInFlight, orphans, probeVars>>

\* A handleSubmit that rescales the significance on the first request only.
handleSubmit_NormalizesOnce ==
    handleSubmitVariant(TRUE, TRUE,
                        IF hasSubmitted THEN parsePayload_SigNotScaled(form)
                        ELSE parsePayload(form))

\* A handleSubmit whose button is enabled while a request is pending.
handleSubmit_WhileLoading ==
    handleSubmitVariant(FALSE, TRUE, parsePayload(form))

\* A handleSubmit without its setResult(null).
handleSubmit_ResultKept ==
    handleSubmitVariant(TRUE, FALSE, parsePayload(form))

\* The Predict button, enabled when isFormValid and not loading: handleSubmit
\* up to its await.
handleSubmit ==
    /\ isAwake
    /\ isFormValid(form)
    /\ ~isLoading
    /\ result' = None
    /\ LET parsed == parsePayload(form)
       IN  IF ~IsNull(parsed.thrown)
           THEN /\ error' = parsed.thrown
                /\ UNCHANGED <<isLoading, hasSubmitted, lastRequestAt, requests>>
           ELSE /\ error' = None
                /\ isLoading' = TRUE
                /\ hasSubmitted' = TRUE
                \* onApiRequest
                /\ lastRequestAt' = Some(Now)
                /\ requests' =
                       Append(requests,
                              [payload |-> Get(parsed.value),
                               body |-> JSONstringify(Get(parsed.value)),
                               form |-> form])
    /\ UNCHANGED <<form, fieldErrors, isAwake, isWaking, loginError,
                   wakeInFlight, orphans, probeVars>>

Remove(seq, i) == SubSeq(seq, 1, i - 1) \o SubSeq(seq, i + 1, Len(seq))

\* handleSubmit after its await, in the Predict that is still mounted: the
\* call of the i-th pending request settles with the given reply of fetch.
handleSubmitSettledWith(i, reply) ==
    /\ i \in 1..Len(requests)
    /\ LET response == predictEarthquakeRisk(reply)
       IN  /\ IF IsNull(response.thrown)
              THEN \* onApiSuccess
                   /\ isAwake' = TRUE
                   /\ lastRequestAt' = Some(Now)
                   /\ result' = response.value
                   /\ UNCHANGED error
              ELSE /\ error' = response.thrown
                   /\ UNCHANGED <<isAwake, lastRequestAt, result>>
           /\ requests' = Remove(requests, i)
    /\ isLoading' = FALSE
    /\ UNCHANGED <<form, fieldErrors, hasSubmitted, isWaking, loginError,
                   wakeInFlight, orphans, probeVars>>

handleSubmitSettled ==
    \E i \in 1..Len(requests) : \E reply \in PredictReplies :
        handleSubmitSettledWith(i, reply)

\* handleSubmit after its await, its Predict unmounted: the state setters do
\* nothing, onApiSuccess still reaches App.
handleSubmitSettledUnmounted ==
    /\ orphans > 0
    /\ orphans' = orphans - 1
    /\ \E reply \in PredictReplies :
        IF IsNull(predictEarthquakeRisk(reply).thrown)
        THEN /\ isAwake' = TRUE
             /\ lastRequestAt' = Some(Now)
             \* useEffect on [isAwake]
             /\ loginError' = IF ~isAwake THEN None ELSE loginError
        ELSE UNCHANGED <<isAwake, lastRequestAt, loginError>>
    /\ UNCHANGED <<isWaking, wakeInFlight, predictVars, requests, probeVars>>

\* The Reset button, enabled while not loading.
handleReset ==
    /\ isAwake
    /\ ~isLoading
    /\ form' = emptyForm
    /\ error' = None
    /\ result' = None
    /\ hasSubmitted' = FALSE
    /\ UNCHANGED <<fieldErrors, isLoading, appVars, netVars, probeVars>>

Next ==
    \/ handleLogin
    \/ handleLoginSettled
    \/ inactivityTimeout
    \/ handleChange
    \/ handleBlur
    \/ handleSubmit
    \/ handleSubmitSettled
    \/ handleSubmitSettledUnmounted
    \/ handleReset

Spec == Init /\ [][Next]_vars

\* The same machine with a call of predictEarthquakeRisk that always
\* settles: fetch resolves or rejects, and the continuation after the await
\* is then run by the event loop.
FairSpec == Init /\ [][Next]_vars /\ WF_vars(handleSubmitSettled)

(***************************************************************************)
(* One submission of an arbitrary form: App is awake after a first login,  *)
(* the user has typed the five values, and the form is submitted.          *)
(***************************************************************************)
SubmitInputs(field) ==
    CASE field = "magnitude" ->
            {<<"a", "b", "c">>, <<"-", "1">>, <<"7">>, <<"1", "0">>,
             <<"1", "0", ".", "1">>}
      [] field = "depth" ->
            {<<"I", "n", "f", "i", "n", "i", "t", "y">>, <<"-", "0", ".", "5">>,
             <<"1", "0">>, <<"7", "0", "0">>, <<"7", "0", "1">>}
      [] field = "cdi" ->
            {<<>>, <<" ">>, <<"1">>, <<"1", "2">>, <<"1", "3">>}
      [] field = "mmi" ->
            {<<"N", "a", "N">>, <<"1">>, <<"6", ".", "5">>, <<"1", "2", ".", "5">>,
             <<"1", "e", "3">>}
      [] field = "sig" ->
            {<<"-", "I", "n", "f", "i", "n", "i", "t", "y">>, <<"-", "1">>,
             <<"1", "0", "0">>, <<"1", "e", "3">>, <<"1", "0", "0", "1">>}

SubmitInit ==
    /\ isAwake = TRUE
    /\ isWaking = FALSE
    /\ lastRequestAt = Some(1)
    /\ loginError = None
    /\ wakeInFlight = FALSE
    /\ form \in [magnitude : SubmitInputs("magnitude"),
                   depth : SubmitInputs("depth"),
                   cdi : SubmitInputs("cdi"),
                   mmi : SubmitInputs("mmi"),
                   sig : SubmitInputs("sig")]
    /\ fieldErrors = noFieldErrors
    /\ result = None
    /\ isLoading = FALSE
    /\ error = None
    /\ hasSubmitted = FALSE
    /\ requests = <<>>
    /\ orphans = 0
    /\ probeIn = None
    /\ probeOut = None

SubmitNext ==
    \/ handleSubmit
    \/ handleSubmitSettled

SubmitSpec == SubmitInit /\ [][SubmitNext]_vars

(***************************************************************************)
(* convertSignificanceToModelScale applied to one raw significance.        *)
(***************************************************************************)
\* Raw significances are taken in steps of 1/SigGrain over [0,1000].
SigGrain == 1

RawSignificances ==
    {Rat(k, SigGrain) :
        k \in (SIGNIFICANCE_USGS_MIN * SigGrain)..(SIGNIFICANCE_USGS_MAX * SigGrain)}

NormalizeInit ==
    /\ AppInit
    /\ probeIn \in {[value |-> s] : s \in RawSignificances}
    /\ probeOut = None

NormalizeApply ==
    /\ IsNull(probeOut)
    /\ probeOut' = Some(convertSignificanceToModelScale(probeIn.value))
    /\ UNCHANGED <<appVars, predictVars, netVars, probeIn>>

NormalizeSpec == NormalizeInit /\ [][NormalizeApply]_vars

(***************************************************************************)
(* The two validations applied to two values of one field.                 *)
(***************************************************************************)
ProbeStrings ==
    {<<>>, <<" ">>, <<"a", "b", "c">>, <<"N", "a", "N">>,
     <<"I", "n", "f", "i", "n", "i", "t", "y">>,
     <<"-", "I", "n", "f", "i", "n", "i", "t", "y">>,
     <<"-", "1">>, <<"0">>, <<"7", ".", "5">>, <<"1", "0">>,
     <<"1", "0", ".", "1">>, <<"1", "2">>, <<"1", "3">>, <<"7", "0", "0">>,
     <<"7", "0", "1">>, <<"1", "e", "3">>, <<"1", "0", "0", "1">>}

\* The placeholders of the five inputs: a form that passes validation.
placeholderForm ==
    [magnitude |-> <<"7", ".", "0">>,
     depth |-> <<"5", "0">>,
     cdi |-> <<"8", ".", "0">>,
     mmi |-> <<"6", ".", "5">>,
     sig |-> <<"5", "0", "0">>]

ValidateInit ==
    /\ AppInit
    /\ probeIn \in [field : FieldSet, a : ProbeStrings, b : ProbeStrings]
    /\ probeOut = None

\* handleBlur's check of the field, and handleSubmit's check of the form
\* whose other four fields are valid.
ValidateApply ==
    /\ IsNull(probeOut)
    /\ LET f == probeIn.field
           formA == [placeholderForm EXCEPT ![f] = probeIn.a]
           formB == [placeholderForm EXCEPT ![f] = probeIn.b]
       IN  probeOut' =
               Some([blurA |-> validateFieldValue(f, probeIn.a),
                     blurB |-> validateFieldValue(f, probeIn.b),
                     submitA |-> parsePayload(formA).thrown,
                     submitB |-> parsePayload(formB).thrown])
    /\ UNCHANGED <<appVars, predictVars, netVars, probeIn>>

ValidateSpec == ValidateInit /\ [][ValidateApply]_vars

(***************************************************************************)
(* Two scorer values taken through the service, predictEarthquakeRisk and  *)
(* PredictionResult.                                                       *)
(***************************************************************************)
\* Scorer values are taken in steps of 1/ScoreGrain over [-1,2].
ScoreGrain == 10

ProbeScores == {Rat(k, ScoreGrain) : k \in (-ScoreGrain)..(2 * ScoreGrain)}

ClassifyInit ==
    /\ AppInit
    /\ probeIn \in [a : ProbeScores, b : ProbeScores]
    /\ probeOut = None

Display(score) ==
    LET response == predictEarthquakeRisk(OkReply(Classify(score)))
    IN  [failed |-> ~IsNull(response.thrown),
         result |-> response.value,
         shown |-> IF IsNull(response.value) THEN None
                   ELSE Some(PredictionResult(Get(response.value)))]

ClassifyApply ==
    /\ IsNull(probeOut)
    /\ probeOut' = Some([a |-> Display(probeIn.a), b |-> Display(probeIn.b)])
    /\ UNCHANGED <<appVars, predictVars, netVars, probeIn>>

ClassifySpec == ClassifyInit /\ [][ClassifyApply]_vars

(***************************************************************************)
(* Properties.                                                             *)
(***************************************************************************)
NumLe(x, y) == NumberIsFinite(x) /\ NumberIsFinite(y) /\ ~NumLt(y, x)

\* A number is finite and inside the closed interval declared for the field.
InDeclaredRange(field, x) ==
    NumberIsFinite(x) /\ NumLe(RangeMin(field), x) /\ NumLe(x, RangeMax(field))

\* Every field of the form converts to a number in its declared range.
InputValid(f) == \A field \in FieldSet : InDeclaredRange(field, Number(f[field]))

ValidationMessages ==
    {"Magnitude must be a number between 0 and 10.",
     "Depth must be a number between 0 and 700 km.",
     "CDI must be a number between 0 and 12.",
     "MMI must be a number between 0 and 12.",
     "Significance must be between 0 and 1000."}

\* C1: whenever handleSubmit runs on a form with a field that is not a finite
\* number in its declared range, the step reports an error and does no
\* network or model work: no request is added (predictEarthquakeRisk is not
\* called), lastRequestAt is not touched (onApiRequest is not called),
\* isLoading stays false and hasSubmitted keeps its value.
C1_ValidationFailsFast ==
    [][(handleSubmit /\ ~InputValid(form)) =>
          /\ ~IsNull(error')
          /\ Get(error') \in ValidationMessages
          /\ requests' = requests
          /\ orphans' = orphans
          /\ lastRequestAt' = lastRequestAt
          /\ isLoading = FALSE
          /\ isLoading' = FALSE
          /\ hasSubmitted' = hasSubmitted]_vars

\* A rejected submission of a never submitted form: the error is shown,
\* nothing is pending, and the timer has seen no request since the login.
C1_Witness ==
    /\ isAwake
    /\ isFormValid(form)
    /\ ~InputValid(form)
    /\ ~IsNull(error)
    /\ Get(error) \in ValidationMessages
    /\ ~isLoading
    /\ ~hasSubmitted
    /\ requests = <<>>

\* The closed interval of each field of the vector given to the classifier.
FeatureMin(field) ==
    IF field = "sig" THEN Int2Num(-128) ELSE Int2Num(0)

FeatureMax(field) ==
    CASE field = "magnitude" -> Int2Num(10)
      [] field = "depth" -> Int2Num(700)
      [] field = "cdi" -> Int2Num(12)
      [] field = "mmi" -> Int2Num(12)
      [] field = "sig" -> Int2Num(127)

FeatureVectorValid(payload) ==
    \A field \in FieldSet :
        /\ NumberIsFinite(payload[field])
        /\ NumLe(FeatureMin(field), payload[field])
        /\ NumLe(payload[field], FeatureMax(field))

\* C2: every payload passed to predictEarthquakeRisk has five finite fields,
\* magnitude in [0,10], depth in [0,700], cdi and mmi in [0,12] and sig in
\* [-128,127], whatever edits and submissions came before.
C2_FeatureVectorInRange ==
    \A i \in 1..Len(requests) : FeatureVectorValid(requests[i].payload)

\* A pending request whose significance sits on the upper end of the interval.
C2_Witness ==
    \E i \in 1..Len(requests) : requests[i].payload["sig"] = Int2Num(127)

\* C3 as claimed: the sig of the posted JSON body is the raw significance
\* the user entered, not a normalised one.
C3_BodySigIsRaw ==
    \A i \in 1..Len(requests) :
        requests[i].body["sig"] = Some(Number(requests[i].form["sig"]))

\* C3 as amended: the sig of the posted JSON body is the significance on the
\* model's scale, raw * 255 / 1000 - 128 for the raw significance entered.
C3_BodySigIsNormalized ==
    \A i \in 1..Len(requests) :
        LET raw == Number(requests[i].form["sig"])
        IN  requests[i].body["sig"] =
                Some(Rat(255 * raw.num - 128000 * raw.den, 1000 * raw.den))

\* A pending request for the raw significance 1000, posted as 127.
C3_Witness ==
    \E i \in 1..Len(requests) :
        /\ Number(requests[i].form["sig"]) = Int2Num(1000)
        /\ requests[i].body["sig"] = Some(Int2Num(127))

\* The affine map of the specification, raw * 255 / 1000 - 128, computed on
\* its own.
ExactAffine(s) ==
    NumSub(NumDiv(NumMul(s, Int2Num(255)), Int2Num(1000)), Int2Num(128))

\* C4: for every raw significance s in [0,1000] the normaliser returns
\* exactly s * 255 / 1000 - 128; it maps 0 to -128, 1000 to 127 and 500 to
\* -0.5.
C4_NormalizeIsAffine ==
    ~IsNull(probeOut) =>
        /\ Get(probeOut) = ExactAffine(probeIn.value)
        /\ probeIn.value = Int2Num(0) => Get(probeOut) = Int2Num(-128)
        /\ probeIn.value = Int2Num(1000) => Get(probeOut) = Int2Num(127)
        /\ probeIn.value = Int2Num(500) => Get(probeOut) = Rat(-1, 2)

\* The midpoint 500 has been normalised to -0.5.
C4_Witness ==
    probeIn.value = Int2Num(500) /\ probeOut = Some(Rat(-1, 2))

\* The inverse affine map, from [-128,127] back to [0,1000].
InverseNormalize(n) ==
    NumDiv(NumMul(NumAdd(n, Int2Num(128)), Int2Num(1000)), Int2Num(255))

C6_OtherFieldsUnchanged ==
    \A i \in 1..Len(requests) :
        \A field \in FieldSet \ {"sig"} :
            requests[i].payload[field] = Number(requests[i].form[field])

\* A pending request whose cdi and mmi differ and whose sig was rescaled.
C6_Witness ==
    \E i \in 1..Len(requests) :
        /\ requests[i].payload["cdi"] = Int2Num(12)
        /\ requests[i].payload["mmi"] = Rat(13, 2)
        /\ requests[i].payload["sig"] # Number(requests[i].form["sig"])

\* The field a validation message of parsePayload names.
FieldNamed(message) ==
    CASE message = "Magnitude must be a number between 0 and 10." -> "magnitude"
      [] message = "Depth must be a number between 0 and 700 km." -> "depth"
      [] message = "CDI must be a number between 0 and 12." -> "cdi"
      [] message = "MMI must be a number between 0 and 12." -> "mmi"
      [] message = "Significance must be between 0 and 1000." -> "sig"

\* The first field, in the order magnitude, depth, cdi, mmi, sig, that does
\* not convert to a finite number in its declared range.
FirstInvalidField(f) ==
    Fields[CHOOSE i \in 1..Len(Fields) :
              /\ ~InDeclaredRange(Fields[i], Number(f[Fields[i]]))
              /\ \A j \in 1..(i - 1) :
                    InDeclaredRange(Fields[j], Number(f[Fields[j]]))]

\* The rejected input of the specification's example.
RejectedExample ==
    [magnitude |-> <<"1", "0", ".", "1">>,
     depth |-> <<"1", "0">>,
     cdi |-> <<"1">>,
     mmi |-> <<"1">>,
     sig |-> <<"1", "0", "0">>]

\* C7: a submission with a field that is NaN, infinite or out of range sets
\* an error that names a field, and the field named is the first invalid
\* one in the order magnitude, depth, cdi, mmi, sig; magnitude 10.1 with the
\* other four valid reports magnitude.
C7_ErrorNamesFirstInvalidField ==
    [][(handleSubmit /\ ~InputValid(form)) =>
          /\ ~IsNull(error')
          /\ Get(error') \in ValidationMessages
          /\ FieldNamed(Get(error')) = FirstInvalidField(form)
          /\ form = RejectedExample => FieldNamed(Get(error')) = "magnitude"]_vars

\* Depth, cdi and sig are invalid, magnitude is not: depth has been reported.
C7_Witness ==
    /\ InDeclaredRange("magnitude", Number(form["magnitude"]))
    /\ ~InDeclaredRange("depth", Number(form["depth"]))
    /\ ~InDeclaredRange("cdi", Number(form["cdi"]))
    /\ ~InDeclaredRange("sig", Number(form["sig"]))
    /\ error = Some("Depth must be a number between 0 and 700 km.")

\* How a typed value fails for a field, if it does.
FailureKind(field, str) ==
    IF ~NumberIsFinite(Number(str)) THEN "not_finite"
    ELSE IF ~InDeclaredRange(field, Number(str)) THEN "out_of_range"
    ELSE "valid"

\* C8: a validation failure carries the reason: two values of one field that
\* fail for different reasons (one is not a finite number, the other is
\* finite and out of range) are reported differently, by the check of the
\* field (validateFieldValue) and by the check at submission (parsePayload).
C8_ReasonDistinguished ==
    (/\ ~IsNull(probeOut)
     /\ FailureKind(probeIn.field, probeIn.a) = "not_finite"
     /\ FailureKind(probeIn.field, probeIn.b) = "out_of_range") =>
        /\ ~IsNull(Get(probeOut).blurA) /\ ~IsNull(Get(probeOut).blurB)
        /\ Get(probeOut).blurA # Get(probeOut).blurB
        /\ ~IsNull(Get(probeOut).submitA) /\ ~IsNull(Get(probeOut).submitB)
        /\ Get(probeOut).submitA # Get(probeOut).submitB

Rank(category) ==
    CASE category = "low" -> 1
      [] category = "medium" -> 2
      [] category = "high" -> 3

\* The bands of the shipped defaults.
DefaultBand(p) ==
    IF NumLt(p, Rat(3, 10)) THEN "low"
    ELSE IF NumLt(p, Rat(7, 10)) THEN "medium"
    ELSE "high"

MessageFor(field) ==
    CHOOSE message \in ValidationMessages : FieldNamed(message) = field

\* What the submission of five values gives, as a function of the five values
\* alone: the error of the first invalid field, or the request for them.
StatelessSubmit(f) ==
    IF ~InputValid(f)
    THEN [error |-> Some(MessageFor(FirstInvalidField(f))), request |-> None]
    ELSE LET sent == [magnitude |-> Number(f["magnitude"]),
                      depth |-> Number(f["depth"]),
                      cdi |-> Number(f["cdi"]),
                      mmi |-> Number(f["mmi"]),
                      sig |-> ExactAffine(Number(f["sig"]))]
         IN  [error |-> None,
              request |-> Some([payload |-> sent,
                                body |-> [field \in FieldSet |-> Some(sent[field])],
                                form |-> f])]

\* What a settled request gives, as a function of the reply alone: the body
\* of a 2xx response as the result, or the message of the failure.
StatelessSettle(reply) ==
    IF reply.kind = "response" /\ reply.ok
    THEN [result |-> reply.data, error |-> None]
    ELSE [result |-> None,
          error |-> IF ~IsNull(reply.detail) THEN reply.detail
                    ELSE Some(StatusMessage(reply.status))]

\* C11: a submission's output depends on its input alone: whatever edits,
\* submissions, errors, results, resets and timeouts came before, handleSubmit
\* on a form gives the error or the request (payload and body) that the five
\* values determine, and a request that settles with a reply gives the result
\* or the error that the reply determines; so the same five values submitted
\* twice give the same payload, and the same reply the same result.
C11_SubmissionIsStateless ==
    [][/\ handleSubmit =>
            LET expected == StatelessSubmit(form)
            IN  /\ result' = None
                /\ error' = expected.error
                /\ requests' = IF IsNull(expected.request) THEN requests
                               ELSE Append(requests, Get(expected.request))
       /\ \A i \in 1..Len(requests) : \A reply \in PredictReplies :
            handleSubmitSettledWith(i, reply) =>
                /\ result' = StatelessSettle(reply).result
                /\ error' = StatelessSettle(reply).error]_vars

\* A later request has given its result in a Predict mounted after a timeout,
\* while the request of the Predict before it is still pending.
C11_Witness ==
    /\ isAwake
    /\ orphans = 1
    /\ ~IsNull(result)
    /\ IsNull(error)
    /\ hasSubmitted
    /\ Number(form["sig"]) = Int2Num(1000)
    /\ InputValid(form)

\* C12: a request exists only for a form whose five fields are all filled in
\* and each convert to a finite number in the declared range; so no field
\* left empty, which Number would convert to 0, is sent on as the value 0.
C12_NoRequestForEmptyField ==
    \A i \in 1..Len(requests) :
        \A field \in FieldSet :
            /\ requests[i].form[field] # <<>>
            /\ InDeclaredRange(field, Number(requests[i].form[field]))
            /\ ~IsNull(requests[i].body[field])

\* The one request pending was made for a form filled in; the fields have
\* been emptied since, an empty form being one Number converts to five zeros
\* in range, and nothing can be sent for it.
C12_Witness ==
    /\ isAwake
    /\ isLoading
    /\ Len(requests) = 1
    /\ isFormValid(requests[1].form)
    /\ form = emptyForm
    /\ IsNull(parsePayload(form).thrown)
    /\ ~isFormValid(form)

\* C13: a result shown belongs to the form shown: when a request settles
\* with a result, the form is the one that was submitted for it, and while
\* that result stays the form is not changed (an edit of the form clears it).
C13_ResultBelongsToForm ==
    [][/\ \A i \in 1..Len(requests) : \A reply \in PredictReplies :
            (handleSubmitSettledWith(i, reply) /\ ~IsNull(result')) =>
                form' = requests[i].form
       /\ (~IsNull(result) /\ result' = result) => form' = form]_vars

\* C14: the mounted Predict has at most one request pending, isLoading is
\* true exactly while it is pending, the step that settles it (with a result
\* or with an error) leaves isLoading false, nothing pending and the Predict
\* button as enabled as the form allows, and whenever isLoading is true it
\* is false again later.
C14_OneRequestInFlight ==
    /\ [](Len(requests) <= 1 /\ (isLoading <=> Len(requests) = 1))
    /\ [][handleSubmitSettled =>
            /\ isLoading
            /\ ~isLoading'
            /\ requests' = <<>>
            /\ isAwake'
            /\ form' = form]_vars
    /\ isLoading ~> ~isLoading

\* A request has failed: isLoading is false again and the form, still valid,
\* can be submitted again.
C14_Witness ==
    /\ isAwake
    /\ hasSubmitted
    /\ ~isLoading
    /\ requests = <<>>
    /\ ~IsNull(error)
    /\ Get(error) \notin ValidationMessages
    /\ isFormValid(form)
    /\ InputValid(form)

\* C15: result and error are never both non-null: handleSubmit clears both
\* and sets error only when validation fails, the step that settles the
\* request leaves exactly one of them non-null (the result of a successful
\* response, the error of a failed one), reset clears both, and an edit of the
\* form while a result is shown clears both.
C15_ResultXorError ==
    /\ [](IsNull(result) \/ IsNull(error))
    /\ [][/\ handleSubmit =>
                /\ IsNull(result')
                /\ IsNull(error') <=> InputValid(form)
          /\ handleSubmitSettled => (IsNull(result') <=> ~IsNull(error'))
          /\ handleReset => (IsNull(result') /\ IsNull(error'))
          /\ (~IsNull(result) /\ handleChange) =>
                (IsNull(result') /\ IsNull(error'))]_vars

\* A form that had a request before has been submitted again and rejected:
\* the validation error is shown and no result is.
C15_Witness ==
    /\ isAwake
    /\ hasSubmitted
    /\ ~isLoading
    /\ IsNull(result)
    /\ ~IsNull(error)
    /\ Get(error) \in ValidationMessages

\* C16: App turns awake only in the step in which a wakeBackend call started
\* by the Login button settles; a wakeBackend call that settles leaving App
\* not awake sets a login error and resets isWaking; and the late settling of
\* a prediction request of an unmounted Predict leaves isAwake as it was.
C16_AwakeOnlyThroughLogin ==
    [][/\ (~isAwake /\ isAwake') =>
            /\ handleLoginSettled
            /\ orphans' = orphans
       /\ (handleLoginSettled /\ ~isAwake') =>
            /\ ~IsNull(loginError')
            /\ ~isWaking'
       /\ handleSubmitSettledUnmounted => isAwake' = isAwake]_vars
=============================================================================
